---------------------------- MODULE Spec2Model ----------------------------
(***************************************************************************)
(* Model of the command-line tools of randomtools: the jira shell          *)
(* (src/randomtools/jira.py), jira-report (jira_report.py), jira-dates     *)
(* (jira_dates.py) and github-synchronize (github_synchronize.py).         *)
(*                                                                         *)
(* Text is modelled as a sequence of one-character strings, so that        *)
(* formatting, splitting, stripping, case folding and the regular          *)
(* expressions of the code are computed and not assumed.                   *)
(***************************************************************************)
EXTENDS Integers, Sequences, FiniteSets, TLC

VARIABLES
    \* ---- parse_time_to_seconds harness
    time_in,        \* how the time string was spelled: [shape, h, m]
    time_str,       \* the text handed to parse_time_to_seconds
    parse_pc,       \* "input" | "ready" | "parsed"
    parse_result,   \* [ok, seconds]: (seconds, _) or (None, None)
    \* ---- the interactive jira shell
    shell_pc,           \* "start" | "prompt" | "stale_prompt" | "exited" | "crashed"
    saved_issues,       \* content of saved_issues.json
    excluded_issues,    \* content of excluded_issues.json
    current_date,       \* global current_date: None or a day
    last_worklog_time,  \* global last_worklog_time: None or a time
    now,                \* the wall clock, in seconds
    last_line,          \* the text the last input() call returned
    dispatched,         \* what run_single_command ran for the last line
    out,                \* the message the last handler printed
    request,            \* the worklog POST the last handler sent, or None
    pending,            \* the worklog waiting for the stale-date answer
    shell_exit,         \* exit status of the jira process, or None
    \* ---- jira-report
    report_pc,            \* "off" | "start" | "asking" | "done"
    arguments,            \* docopt arguments: reset, skip_categorization, skip_worklogs, level
    jira_worklogs,        \* the issues with worklogs in the period, as Jira holds them
    stored_sections,      \* content of report_sections.json when the run began
    sections_file,        \* content of report_sections.json: issue -> section
    file_written,         \* save_sections ran
    worklogs_by_issue,    \* main: the issues of the fetched worklogs
    sections,             \* assign_sections: the mapping being built
    known_section_names,  \* assign_sections: the menu
    asking,               \* the issues assign_sections has yet to ask about
    prompts,              \* the issues a prompt was printed for
    answers,              \* what was typed at each prompt
    report,               \* the lines printed on stdout
    report_msg,           \* the message printed on stderr
    report_exit,          \* exit status of jira-report, or None
    \* ---- github-synchronize
    sync_pc,        \* "off" | "start" | "loop" | "branch_prompt" | "strategy_prompt" | "done"
    directory,      \* the entries of the working directory: name -> what it is
    message,        \* the --message argument, or None
    queue,          \* main: the sorted subdirectories not yet done with
    git_log,        \* every git process run: [repo, argv, ok]
    failed_repos,   \* main: failed_repos
    sync_exit,      \* exit status of github-synchronize, or None
    sync_summary,   \* what the run ended with
    \* ---- the Jira requests of jira --list, jira-report and jira-dates
    fetch_pc,         \* "off" | "start" | "search" | "worklog" | "gadgets" |
                      \* "gadget_config" | "gadget_update" | "fetched" | "done" |
                      \* "recent" | "prompt"
    tool,             \* which main is running
    jira,             \* what the Jira instance holds: search pages, worklog totals
    dashboard,        \* the gadgets of the dashboard
    requests_log,     \* every request sent: [kind, param, outcome]
    next_page_token,  \* find_issues_with_worklogs_in_period: next_page_token
    all_issues,       \* find_issues_with_worklogs_in_period: all_issues
    recent_issues,    \* update_cache: recent_issues, None until get_recent_issues returned
    issue_queue,      \* get_timelogs_for_time_period: the issues yet to fetch
    start_at,         \* get_issue_worklogs_in_period: start_at
    all_worklogs,     \* get_issue_worklogs_in_period: len(all_worklogs)
    worklogs,         \* get_timelogs_for_time_period: worklogs, counted per issue
    gadget_queue,     \* auto_update_timetracker_gadgets: the gadgets yet to do
    gadgets_found,    \* auto_update_timetracker_gadgets: len(gadgets)
    updated_count,    \* auto_update_timetracker_gadgets: updated_count
    fetch_out,        \* the messages printed
    fetch_exit        \* exit status of the tool, or None

parseVars == <<time_in, time_str, parse_pc, parse_result>>

shellVars == <<shell_pc, saved_issues, excluded_issues, current_date,
               last_worklog_time, now, last_line, dispatched, out, request,
               pending, shell_exit>>

reportVars == <<report_pc, arguments, jira_worklogs, stored_sections, sections_file, file_written,
                worklogs_by_issue, sections, known_section_names, asking, prompts,
                answers, report, report_msg, report_exit>>

syncVars == <<sync_pc, directory, message, queue, git_log, failed_repos, sync_exit,
              sync_summary>>

fetchVars == <<fetch_pc, tool, jira, dashboard, requests_log, next_page_token, all_issues,
               recent_issues,
               issue_queue, start_at, all_worklogs, worklogs, gadget_queue,
               gadgets_found, updated_count, fetch_out, fetch_exit>>

vars == <<parseVars, shellVars, reportVars, syncVars, fetchVars>>

\* each tool is a process of its own: its steps leave the other tools alone
OnlyParse == UNCHANGED <<shellVars, reportVars, syncVars, fetchVars>>
OnlyShell == UNCHANGED <<parseVars, reportVars, syncVars, fetchVars>>
OnlyReport == UNCHANGED <<parseVars, shellVars, syncVars, fetchVars>>
OnlySync == UNCHANGED <<parseVars, shellVars, reportVars, fetchVars>>
OnlyFetch == UNCHANGED <<parseVars, shellVars, reportVars, syncVars>>

None == <<>>
Some(x) == <<x>>

-----------------------------------------------------------------------------
(* Text helpers: Python str methods on sequences of characters.            *)

Digits == {"0", "1", "2", "3", "4", "5", "6", "7", "8", "9"}

Whitespace == {" "}

DigitVal(c) ==
    CASE c = "0" -> 0 [] c = "1" -> 1 [] c = "2" -> 2 [] c = "3" -> 3
      [] c = "4" -> 4 [] c = "5" -> 5 [] c = "6" -> 6 [] c = "7" -> 7
      [] c = "8" -> 8 [] c = "9" -> 9

DigitChar(d) ==
    CASE d = 0 -> "0" [] d = 1 -> "1" [] d = 2 -> "2" [] d = 3 -> "3"
      [] d = 4 -> "4" [] d = 5 -> "5" [] d = 6 -> "6" [] d = 7 -> "7"
      [] d = 8 -> "8" [] d = 9 -> "9"

\* str(n) for n >= 0
RECURSIVE IntToStr(_)
IntToStr(n) ==
    IF n < 10 THEN <<DigitChar(n)>>
    ELSE Append(IntToStr(n \div 10), DigitChar(n % 10))

\* int(s) for a non-empty string of ASCII digits
RECURSIVE StrToInt(_)
StrToInt(s) ==
    IF Len(s) = 0 THEN 0
    ELSE 10 * StrToInt(SubSeq(s, 1, Len(s) - 1)) + DigitVal(s[Len(s)])

IsDigits(s) == Len(s) > 0 /\ \A i \in 1..Len(s) : s[i] \in Digits

\* s.strip()
RECURSIVE Strip(_)
Strip(s) ==
    IF Len(s) = 0 THEN s
    ELSE IF s[1] \in Whitespace THEN Strip(Tail(s))
    ELSE IF s[Len(s)] \in Whitespace THEN Strip(SubSeq(s, 1, Len(s) - 1))
    ELSE s

RECURSIVE Pow10(_)
Pow10(k) == IF k = 0 THEN 1 ELSE 10 * Pow10(k - 1)

-----------------------------------------------------------------------------
(* parse_time_to_seconds (jira.py): the seconds of the returned pair.      *)

NoTime == [ok |-> FALSE, seconds |-> 0]
Seconds(n) == [ok |-> TRUE, seconds |-> n]

\* the text without one trailing letter of `letters` (the regex tail  h?$ , m?$)
DropOptional(s, letters) ==
    IF Len(s) > 0 /\ s[Len(s)] \in letters THEN SubSeq(s, 1, Len(s) - 1) ELSE s

\* ^([0-9.]+)h?$ : the group, or <<>> when the text does not match
DecimalGroup(s) ==
    LET g == DropOptional(s, {"h", "H"})
    IN IF Len(g) > 0 /\ \A i \in 1..Len(g) : g[i] \in Digits \cup {"."}
       THEN g ELSE <<>>

\* float(g) raises ValueError unless g has a digit and at most one point
FloatOk(g) ==
    /\ \E i \in 1..Len(g) : g[i] \in Digits
    /\ Cardinality({i \in 1..Len(g) : g[i] = "."}) <= 1

\* int(float(g) * 3600), computed exactly; on the time strings of this model
\* (digits 1 and 5, a few characters) the floating-point product gives the
\* same integer
DecimalSeconds(g) ==
    LET dots == {i \in 1..Len(g) : g[i] = "."}
        p    == IF dots = {} THEN Len(g) + 1 ELSE CHOOSE i \in dots : TRUE
        ip   == SubSeq(g, 1, p - 1)
        fp   == SubSeq(g, p + 1, Len(g))
        k    == Len(fp)
    IN ((StrToInt(ip) * Pow10(k) + StrToInt(fp)) * 3600) \div Pow10(k)

\* ^([0-9]+)h\s*([0-9]+)m?$ : <<hours, minutes>> or <<>>
HmGroups(s) ==
    LET hs == {i \in 1..Len(s) : s[i] \in {"h", "H"}}
    IN IF hs = {} THEN <<>>
       ELSE LET p    == CHOOSE i \in hs : \A j \in hs : i <= j
                hp   == SubSeq(s, 1, p - 1)
                rest == DropOptional(SubSeq(s, p + 1, Len(s)), {"m", "M"})
                sp   == {i \in 0..Len(rest) : \A j \in 1..i : rest[j] \in Whitespace}
                q    == CHOOSE i \in sp : \A j \in sp : j <= i
                mp   == SubSeq(rest, q + 1, Len(rest))
            IN IF IsDigits(hp) /\ IsDigits(mp) THEN <<hp, mp>> ELSE <<>>

\* the variant of the pattern with a mandatory m:  ^([0-9]+)h\s*([0-9]+)m$
HmGroupsStrict(s) ==
    IF Len(s) > 0 /\ s[Len(s)] \in {"m", "M"} THEN HmGroups(s) ELSE <<>>

\* ^([0-9]+):([0-9]+)$ : <<hours, minutes>> or <<>>
ColonGroups(s) ==
    LET cs == {i \in 1..Len(s) : s[i] = ":"}
    IN IF Cardinality(cs) # 1 THEN <<>>
       ELSE LET p  == CHOOSE i \in cs : TRUE
                hp == SubSeq(s, 1, p - 1)
                mp == SubSeq(s, p + 1, Len(s))
            IN IF IsDigits(hp) /\ IsDigits(mp) THEN <<hp, mp>> ELSE <<>>

\* ^([0-9]+)m?$ : the group or <<>>
MinutesGroup(s) ==
    LET g == DropOptional(s, {"m", "M"})
    IN IF IsDigits(g) THEN g ELSE <<>>

\* the four patterns in the order of the code; hg is what the hours-and-minutes
\* pattern yields on the stripped text
ParseTimeWith(hg, raw) ==
    LET s  == Strip(raw)
        dg == DecimalGroup(s)
        cg == ColonGroups(s)
        mg == MinutesGroup(s)
    IN IF dg # <<>> /\ FloatOk(dg) THEN Seconds(DecimalSeconds(dg))
       ELSE IF hg # <<>> THEN Seconds(StrToInt(hg[1]) * 3600 + StrToInt(hg[2]) * 60)
       ELSE IF cg # <<>> THEN
            IF StrToInt(cg[2]) >= 60 THEN NoTime
            ELSE Seconds(StrToInt(cg[1]) * 3600 + StrToInt(cg[2]) * 60)
       ELSE IF mg # <<>> THEN Seconds(StrToInt(mg) * 60)
       ELSE NoTime

parse_time_to_seconds_strict_m(raw) == ParseTimeWith(HmGroupsStrict(Strip(raw)), raw)

parse_time_to_seconds(raw) == ParseTimeWith(HmGroups(Strip(raw)), raw)

-----------------------------------------------------------------------------
(* Harness of parse_time_to_seconds: a time string is spelled from hours   *)
(* and minutes, or typed freely, and parsed.                               *)

MaxHours == 11
MinutesPerHour == 60
MaxRawLen == 3

Spellings == {"HhMm", "Hh Mm", "HhM", "H:M"}

\* the minutes as written: plain, or zero-padded to two digits ("05")
MinuteText(m, pad) == IF pad /\ m < 10 THEN <<"0">> \o IntToStr(m) ELSE IntToStr(m)

Spell(shape, h, m, pad) ==
    LET hh == IntToStr(h)
        mm == MinuteText(m, pad)
    IN CASE shape = "HhMm"  -> hh \o <<"h">> \o mm \o <<"m">>
         [] shape = "Hh Mm" -> hh \o <<"h", " ">> \o mm \o <<"m">>
         [] shape = "HhM"   -> hh \o <<"h">> \o mm
         [] shape = "H:M"   -> hh \o <<":">> \o mm

RawTexts ==
    UNION {[1..n -> {"1", "5", ".", "h", "m", ":", " "}] : n \in 0..MaxRawLen}

NoSpelling == [shape |-> "raw", h |-> 0, m |-> 0]

InitParse ==
    /\ time_in = NoSpelling
    /\ time_str = <<>>
    /\ parse_pc = "input"
    /\ parse_result = NoTime

SpellTime ==
    /\ OnlyParse
    /\ parse_pc = "input"
    /\ \E shape \in Spellings, h \in 0..MaxHours, m \in 0..(MinutesPerHour - 1),
          pad \in BOOLEAN :
          /\ time_in' = [shape |-> shape, h |-> h, m |-> m]
          /\ time_str' = Spell(shape, h, m, pad)
    /\ parse_pc' = "ready"
    /\ UNCHANGED parse_result

TypeTime ==
    /\ OnlyParse
    /\ parse_pc = "input"
    /\ \E s \in RawTexts :
          /\ time_in' = NoSpelling
          /\ time_str' = s
    /\ parse_pc' = "ready"
    /\ UNCHANGED parse_result

ParseTime ==
    /\ OnlyParse
    /\ parse_pc = "ready"
    /\ parse_result' = parse_time_to_seconds(time_str)
    /\ parse_pc' = "parsed"
    /\ UNCHANGED <<time_in, time_str>>

NextTime ==
    /\ OnlyParse
    /\ parse_pc = "parsed"
    /\ parse_pc' = "input"
    /\ time_in' = NoSpelling
    /\ time_str' = <<>>
    /\ parse_result' = NoTime


-----------------------------------------------------------------------------
(* More text helpers, for the shell's command line.                        *)

LowerLetters == <<"a", "b", "c", "d", "e", "f", "g", "h", "i", "j", "k", "l", "m",
                  "n", "o", "p", "q", "r", "s", "t", "u", "v", "w", "x", "y", "z">>
UpperLetters == <<"A", "B", "C", "D", "E", "F", "G", "H", "I", "J", "K", "L", "M",
                  "N", "O", "P", "Q", "R", "S", "T", "U", "V", "W", "X", "Y", "Z">>

IsLetter(c) == \E i \in 1..26 : LowerLetters[i] = c \/ UpperLetters[i] = c

UpperChar(c) ==
    IF \E i \in 1..26 : LowerLetters[i] = c
    THEN UpperLetters[CHOOSE i \in 1..26 : LowerLetters[i] = c] ELSE c

LowerChar(c) ==
    IF \E i \in 1..26 : UpperLetters[i] = c
    THEN LowerLetters[CHOOSE i \in 1..26 : UpperLetters[i] = c] ELSE c

\* s.upper(), s.lower()
Upper(s) == [i \in 1..Len(s) |-> UpperChar(s[i])]
Lower(s) == [i \in 1..Len(s) |-> LowerChar(s[i])]

\* sep.join(parts)
RECURSIVE Join(_, _)
Join(parts, sep) ==
    IF Len(parts) = 0 THEN <<>>
    ELSE IF Len(parts) = 1 THEN parts[1]
    ELSE parts[1] \o sep \o Join(Tail(parts), sep)

\* s.startswith(prefix)
StartsWith(s, prefix) ==
    Len(prefix) <= Len(s) /\ SubSeq(s, 1, Len(prefix)) = prefix

\* shlex.split(s) on text of letters, digits, punctuation, blanks and the
\* single quote: [ok, parts]; ok is FALSE where shlex raises ValueError
\* ("No closing quotation")
RECURSIVE ShlexScan(_, _, _, _, _, _)
ShlexScan(s, i, inq, cur, started, acc) ==
    IF i > Len(s) THEN
        IF inq THEN [ok |-> FALSE, parts |-> <<>>]
        ELSE [ok |-> TRUE, parts |-> IF started THEN Append(acc, cur) ELSE acc]
    ELSE IF s[i] = "'" THEN ShlexScan(s, i + 1, ~inq, cur, TRUE, acc)
    ELSE IF s[i] \in Whitespace /\ ~inq THEN
        ShlexScan(s, i + 1, FALSE, <<>>, FALSE,
                  IF started THEN Append(acc, cur) ELSE acc)
    ELSE ShlexScan(s, i + 1, inq, Append(cur, s[i]), TRUE, acc)

shlex_split(s) == ShlexScan(s, 1, FALSE, <<>>, FALSE, <<>>)

\* RE_ISSUE_TIME = ^([A-Z]+-\d+)\s+([0-9. hm:]+)(?:\s+(.+))?$  (IGNORECASE):
\* [ok, issue, time] with the groups the backtracking match yields (each of
\* \s+ and group 2 as long as a match allows, the earlier one first)
TimeClass == Digits \cup {".", " ", "h", "m", ":", "H", "M"}

RE_ISSUE_TIME(s) ==
    LET n     == Len(s)
        ls    == {a \in 0..n : \A k \in 1..a : IsLetter(s[k])}
        a     == CHOOSE x \in ls : \A y \in ls : y <= x
        ds    == {b \in (a + 1)..n : \A k \in (a + 2)..b : s[k] \in Digits}
        b     == CHOOSE x \in ds : \A y \in ds : y <= x
        keyOk == a >= 1 /\ a + 1 <= n /\ s[a + 1] = "-" /\ b >= a + 2
        \* i: the last blank of the first \s+, j: the last character of group 2
        cand  == {p \in ((b + 1)..n) \X ((b + 2)..n) :
                    /\ p[1] < p[2]
                    /\ \A k \in (b + 1)..p[1] : s[k] \in Whitespace
                    /\ \A k \in (p[1] + 1)..p[2] : s[k] \in TimeClass
                    /\ \/ p[2] = n
                       \/ p[2] + 2 <= n /\ s[p[2] + 1] \in Whitespace}
        best  == CHOOSE p \in cand : \A q \in cand :
                    q[1] < p[1] \/ (q[1] = p[1] /\ q[2] <= p[2])
    IN IF keyOk /\ cand # {}
       THEN [ok |-> TRUE, issue |-> SubSeq(s, 1, b),
             time |-> SubSeq(s, best[1] + 1, best[2])]
       ELSE [ok |-> FALSE, issue |-> <<>>, time |-> <<>>]

is_issue_time_command(text) == RE_ISSUE_TIME(text).ok

-----------------------------------------------------------------------------
(* The jira shell (jira.py): commands, dispatch and the handlers.          *)

\* the words of the shell: command names and the arguments with a meaning
Word ==
    [ list |-> <<"l", "i", "s", "t">>,
      save |-> <<"s", "a", "v", "e">>,
      exclude |-> <<"e", "x", "c", "l", "u", "d", "e">>,
      remove |-> <<"r", "e", "m", "o", "v", "e">>,
      create |-> <<"c", "r", "e", "a", "t", "e">>,
      update |-> <<"u", "p", "d", "a", "t", "e">>,
      set |-> <<"s", "e", "t">>,
      reset |-> <<"r", "e", "s", "e", "t">>,
      help |-> <<"h", "e", "l", "p">>,
      calendar |-> <<"c", "a", "l", "e", "n", "d", "a", "r">>,
      week |-> <<"w", "e", "e", "k">>,
      yesterday |-> <<"y", "e", "s", "t", "e", "r", "d", "a", "y">> ]

\* the dict `commands`, in insertion order: <<name, function>>
commands == <<
    <<Word.list,    "list_worklogs">>,
    <<Word.save,    "save_issue">>,
    <<Word.exclude, "exclude_issue">>,
    <<Word.remove,  "remove_issue">>,
    <<Word.create,  "create_issue">>,
    <<Word.update,  "update_cache">>,
    <<Word.set,     "set_date_command">>,
    <<Word.reset,   "reset_date_command">>,
    <<Word.help,    "help_command">> >>

\* match_text_against_commands: the first command whose name starts with text
match_text_against_commands(text) ==
    LET hits == {i \in 1..Len(commands) : StartsWith(commands[i][1], text)}
    IN IF hits = {} THEN "None"
       ELSE commands[CHOOSE i \in hits : \A j \in hits : i <= j][2]

DaySeconds == 86400
StaleSeconds == 1800

Today(t) == t \div DaySeconds

\* dateparser.parse(date_str).date() of the external dateparser library, on
\* the date texts of this model: "dN" stands for the calendar date of day N,
\* "yesterday" is relative to the clock, any other text is not a date (None)
dateparser_parse(date_str, t) ==
    IF Len(date_str) = 2 /\ date_str[1] = "d" /\ date_str[2] \in Digits
    THEN Some(DigitVal(date_str[2]))
    ELSE IF date_str = Word.yesterday THEN Some(Today(t) - 1)
    ELSE None

\* the variant that forgets the set date
get_working_date_today(cur, t) == Today(t)

\* get_working_date
get_working_date(cur, t) == IF cur # None THEN cur[1] ELSE Today(t)

\* check_stale_date up to its input() call: TRUE when it has to ask
StaleDateAsks(cur, last, t) ==
    /\ cur # None
    /\ last # None
    /\ t - last[1] >= StaleSeconds

\* the POST of log_time_to_issue: payload "started" is the working date
WorklogRequest(issue, seconds, cur, t) ==
    Some([issue |-> issue, seconds |-> seconds, day |-> get_working_date(cur, t)])

ApiResults == {"ok", "http_error", "connection_error"}

\* remove_issue on the two stored sets
RemoveFromSaved(saved, issue) == saved \ {issue}

\* the variant that stops after the saved list
RemoveFromExcludedSkipped(excluded, issue) == excluded

RemoveFromExcluded(excluded, issue) == excluded \ {issue}

\* what remove_issue prints
RemoveMessage(saved, excluded, issue) ==
    IF issue \in saved \/ issue \in excluded THEN "removed" ELSE "not_in_lists"

\* Handlers other than time logging: args are the words after the command.
\* Each arm gives the next value of every shell variable a handler can
\* touch; api is the outcome of the handler's Jira request(s).
RunCommand(command, args) ==
    CASE command = "list_worklogs" ->
            /\ \E api \in ApiResults : out' = IF api = "ok" THEN "listed" ELSE "api_error"
            /\ UNCHANGED <<saved_issues, excluded_issues, current_date>>
      [] command = "save_issue" ->
            IF args = <<>> THEN
                /\ out' = "usage"
                /\ UNCHANGED <<saved_issues, excluded_issues, current_date>>
            ELSE
                /\ excluded_issues' = excluded_issues \ {Upper(args[1])}
                /\ saved_issues' = saved_issues \cup {Upper(args[1])}
                /\ out' = "added"
                /\ UNCHANGED current_date
      [] command = "exclude_issue" ->
            IF args = <<>> THEN
                /\ out' = "usage"
                /\ UNCHANGED <<saved_issues, excluded_issues, current_date>>
            ELSE
                /\ saved_issues' = saved_issues \ {Upper(args[1])}
                /\ excluded_issues' = excluded_issues \cup {Upper(args[1])}
                /\ out' = "added"
                /\ UNCHANGED current_date
      [] command = "remove_issue" ->
            IF args = <<>> THEN
                /\ out' = "usage"
                /\ UNCHANGED <<saved_issues, excluded_issues, current_date>>
            ELSE
                /\ saved_issues' = RemoveFromSaved(saved_issues, Upper(args[1]))
                /\ excluded_issues' = RemoveFromExcluded(excluded_issues, Upper(args[1]))
                /\ out' = RemoveMessage(saved_issues, excluded_issues, Upper(args[1]))
                /\ UNCHANGED current_date
      [] command = "create_issue" ->
            IF Len(args) < 2 THEN
                /\ out' = "usage"
                /\ UNCHANGED <<saved_issues, excluded_issues, current_date>>
            ELSE
                \/ \* Jira answers 201 with the key of the new issue
                   /\ saved_issues' = saved_issues \cup {Upper(args[1]) \o <<"-", "2">>}
                   /\ out' = "created"
                   /\ UNCHANGED <<excluded_issues, current_date>>
                \/ \* another status, or a RequestException
                   /\ out' = "api_error"
                   /\ UNCHANGED <<saved_issues, excluded_issues, current_date>>
      [] command = "update_cache" ->
            \* get_recent_issues returns [] on failure; recent_issues.json is
            \* written either way (the file is only displayed by list_worklogs)
            /\ \E api \in ApiResults, found \in BOOLEAN :
                  out' = IF api = "ok" /\ found THEN "cache_updated" ELSE "no_recent_issues"
            /\ UNCHANGED <<saved_issues, excluded_issues, current_date>>
      [] command = "set_date_command" ->
            IF args = <<>> THEN
                /\ out' = "usage"
                /\ UNCHANGED <<saved_issues, excluded_issues, current_date>>
            ELSE IF dateparser_parse(Join(args, <<" ">>), now) = None THEN
                /\ out' = "date_error"
                /\ UNCHANGED <<saved_issues, excluded_issues, current_date>>
            ELSE
                \* the date is set, then list_worklogs([], config) runs
                /\ current_date' = dateparser_parse(Join(args, <<" ">>), now)
                /\ \E api \in ApiResults :
                      out' = IF api = "ok" THEN "date_set" ELSE "api_error"
                /\ UNCHANGED <<saved_issues, excluded_issues>>
      [] command = "reset_date_command" ->
            /\ current_date' = None
            /\ out' = "date_reset"
            /\ UNCHANGED <<saved_issues, excluded_issues>>
      [] command = "help_command" ->
            /\ out' = "help"
            /\ UNCHANGED <<saved_issues, excluded_issues, current_date>>

\* log_time_to_issue from the POST on
PostWorklog(issue, seconds, cur, api) ==
    /\ request' = WorklogRequest(issue, seconds, cur, now)
    /\ IF api = "ok"
       THEN /\ last_worklog_time' = Some(now)
            /\ out' = "logged"
       ELSE /\ out' = "api_error"
            /\ UNCHANGED last_worklog_time

\* pieces of the lines typed: issue keys, times, dates, a blank
Typed ==
    [ a1 |-> <<"a", "-", "1">>,
      B2 |-> <<"B", "-", "2">>,
      t1h |-> <<"1", "h">>,
      t5m |-> <<"5", "m">>,
      d1 |-> <<"d", "1">>,
      junk |-> <<"z", "z">>,
      sp |-> <<" ">> ]

\* the lines typed in this model
Lines ==
    {Join(<<c>> \o a, Typed.sp) :
        c \in {Word.save, Word.exclude, Word.remove, <<"r">>},
        a \in {<<>>, <<Typed.a1>>, <<Typed.B2>>}}
    \cup {Join(<<c>> \o a, Typed.sp) :
        c \in {Word.set, <<"s", "e">>},
        a \in {<<>>, <<Typed.d1>>, <<Word.yesterday>>, <<Typed.junk>>}}
    \cup {Word.reset, <<"r", "e", "s">>, Word.list, Join(<<Word.list, Word.week>>, Typed.sp), Word.help,
          Word.update, Word.create, Join(<<Word.create, <<"b">>, Typed.junk>>, Typed.sp),
          Word.calendar, Join(<<Word.calendar, Typed.a1>>, Typed.sp), <<"c", "a", "l">>, <<"x">>}
    \cup {Join(<<k, t>>, Typed.sp) : k \in {Typed.a1, Typed.B2}, t \in {Typed.t1h, Typed.t5m, <<"h">>}}
    \cup {Join(<<Typed.a1, Typed.t1h, Typed.t5m>>, Typed.sp), Join(<<Typed.a1, Typed.t1h, Typed.junk>>, Typed.sp),
          Join(<<Typed.a1, Typed.t1h, <<"d", "o", "n", "'", "t">> >>, Typed.sp),
          Join(<<Typed.a1, Typed.junk>>, Typed.sp)}
    \cup {<<>>, <<" ">>, <<"'">>, Join(<<Word.save, <<"'", "a", "-", "1", "'">> >>, Typed.sp)}

Answers == {<<>>, <<"y">>, <<"n">>, <<" ", "N">>}

\* what run_single_command computes from the text alone, per line
LineTable ==
    [l \in Lines |->
        [split   |-> shlex_split(l),
         is_time |-> is_issue_time_command(l),
         m       |-> RE_ISSUE_TIME(l),
         parsed  |-> parse_time_to_seconds(RE_ISSUE_TIME(l).time),
         command |-> IF shlex_split(l).ok /\ shlex_split(l).parts # <<>>
                     THEN match_text_against_commands(shlex_split(l).parts[1])
                     ELSE "None"]]

\* the shell has crashed with an uncaught exception: traceback, exit status 1
Crash ==
    /\ shell_pc' = "crashed"
    /\ shell_exit' = Some(1)
    /\ dispatched' = "exception"
    /\ out' = "traceback"
    /\ request' = None
    /\ UNCHANGED <<saved_issues, excluded_issues, current_date,
                   last_worklog_time, pending>>

\* log_time_to_issue(config, text) up to its POST or its stale-date question
LogTime(text) ==
    LET m       == LineTable[text].m
        issue   == Upper(m.issue)
        parsed  == LineTable[text].parsed
    IN /\ dispatched' = "log_time_to_issue"
       /\ UNCHANGED <<saved_issues, excluded_issues, current_date, shell_exit>>
       /\ IF ~parsed.ok THEN
              /\ out' = "invalid_time"
              /\ request' = None
              /\ UNCHANGED <<shell_pc, last_worklog_time, pending>>
          ELSE IF StaleDateAsks(current_date, last_worklog_time, now) THEN
              /\ shell_pc' = "stale_prompt"
              /\ pending' = Some([issue |-> issue, seconds |-> parsed.seconds])
              /\ out' = "stale_question"
              /\ request' = None
              /\ UNCHANGED last_worklog_time
          ELSE
              /\ \E api \in ApiResults :
                    PostWorklog(issue, parsed.seconds, current_date, api)
              /\ UNCHANGED <<shell_pc, pending>>

\* run_single_command: one line typed at the "jira> " prompt
ReadLine(line) ==
    /\ OnlyShell
    /\ shell_pc = "prompt"
    /\ last_line' = line
    /\ UNCHANGED now
    /\ IF line = <<>> THEN
            \* get_input_until(bool): an empty line is asked again
            /\ dispatched' = "none"
            /\ out' = "none"
            /\ request' = None
            /\ UNCHANGED <<shell_pc, saved_issues, excluded_issues,
                           current_date, last_worklog_time, pending, shell_exit>>
       ELSE IF ~LineTable[line].split.ok THEN Crash        \* shlex: ValueError
       ELSE IF LineTable[line].is_time THEN LogTime(line)
       ELSE IF LineTable[line].split.parts = <<>> THEN Crash   \* parts[0]: IndexError
       ELSE LET parts   == LineTable[line].split.parts
                command == LineTable[line].command
            IN /\ request' = None
               /\ UNCHANGED <<shell_pc, last_worklog_time, pending, shell_exit>>
               /\ IF command # "None" THEN
                      /\ dispatched' = command
                      /\ RunCommand(command, Tail(parts))
                  ELSE
                      /\ dispatched' = "unknown_command"
                      /\ out' = "unknown_command"
                      /\ UNCHANGED <<saved_issues, excluded_issues,
                                     current_date>>

\* check_stale_date after its input() returned, and the rest of log_time_to_issue
AnswerStale(answer, api) ==
    /\ OnlyShell
    /\ shell_pc = "stale_prompt"
    /\ last_line' = answer
    /\ current_date' = IF Lower(Strip(answer)) # <<"n">> THEN None ELSE current_date
    /\ PostWorklog(pending[1].issue, pending[1].seconds, current_date', api)
    /\ shell_pc' = "prompt"
    /\ pending' = None
    /\ UNCHANGED <<saved_issues, excluded_issues, now, dispatched, shell_exit>>

\* EOFError or KeyboardInterrupt at the stale-date question: nothing is logged
AbortStale ==
    /\ OnlyShell
    /\ shell_pc = "stale_prompt"
    /\ shell_pc' = "prompt"
    /\ pending' = None
    /\ out' = "none"
    /\ request' = None
    /\ UNCHANGED <<saved_issues, excluded_issues, current_date,
                   last_worklog_time, now, last_line, dispatched, shell_exit>>

\* main: Ctrl+D or Ctrl+C at the prompt
EndOfInput ==
    /\ OnlyShell
    /\ shell_pc = "prompt"
    /\ shell_pc' = "exited"
    /\ shell_exit' = Some(0)
    /\ out' = "exiting"
    /\ UNCHANGED <<saved_issues, excluded_issues, current_date,
                   last_worklog_time, now, last_line, dispatched, request, pending>>

\* main up to the loop: configuration, readline, the first list_worklogs
StartShell(config_ok, api) ==
    /\ OnlyShell
    /\ shell_pc = "start"
    /\ IF config_ok
       THEN /\ shell_pc' = "prompt"
            /\ out' = IF api = "ok" THEN "listed" ELSE "api_error"
            /\ UNCHANGED shell_exit
       ELSE /\ shell_pc' = "exited"
            /\ out' = "configuration_error"
            /\ shell_exit' = Some(1)
    /\ UNCHANGED <<saved_issues, excluded_issues, current_date,
                   last_worklog_time, now, last_line, dispatched, request, pending>>

MaxClockSteps == 1

\* how often the clock has moved: once per tick and per midnight
ClockSteps(t) == Today(t) + (t % DaySeconds) \div StaleSeconds

\* time passes while the shell waits for input
Tick ==
    /\ OnlyShell
    /\ shell_pc \in {"prompt", "stale_prompt"}
    /\ ClockSteps(now) < MaxClockSteps
    /\ now' = now + StaleSeconds
    /\ UNCHANGED <<shell_pc, saved_issues, excluded_issues, current_date,
                   last_worklog_time, last_line, dispatched, out, request, pending,
                   shell_exit>>

Midnight ==
    /\ OnlyShell
    /\ shell_pc \in {"prompt", "stale_prompt"}
    /\ ClockSteps(now) < MaxClockSteps
    /\ now' = (Today(now) + 1) * DaySeconds
    /\ UNCHANGED <<shell_pc, saved_issues, excluded_issues, current_date,
                   last_worklog_time, last_line, dispatched, out, request, pending,
                   shell_exit>>

InitShell ==
    /\ shell_pc = "start"
    /\ saved_issues = {}
    /\ excluded_issues = {}
    /\ current_date = None
    /\ last_worklog_time = None
    /\ now = 0
    /\ last_line = <<>>
    /\ dispatched = "none"
    /\ out = "none"
    /\ request = None
    /\ pending = None
    /\ shell_exit = None

Next ==
    \/ \E c \in BOOLEAN, api \in ApiResults : StartShell(c, api)
    \/ \E line \in Lines : ReadLine(line)
    \/ \E answer \in Answers, api \in ApiResults : AnswerStale(answer, api)
    \/ AbortStale
    \/ EndOfInput
    \/ Tick
    \/ Midnight

-----------------------------------------------------------------------------
(* jira-report (jira_report.py): section assignment and the report.        *)

\* the characters of this model in code point order, for comparing and
\* sorting text the way Python does
CharOrder == <<" ", "'", "-", ".", "0", "1", "2", "3", "4", "5", "6", "7", "8", "9",
               ":">> \o UpperLetters \o LowerLetters

CharRank(c) == CHOOSE i \in 1..Len(CharOrder) : CharOrder[i] = c

\* s < t for str
RECURSIVE StrLess(_, _)
StrLess(s, t) ==
    IF Len(t) = 0 THEN FALSE
    ELSE IF Len(s) = 0 THEN TRUE
    ELSE IF s[1] = t[1] THEN StrLess(Tail(s), Tail(t))
    ELSE CharRank(s[1]) < CharRank(t[1])

\* sorted(S) for a set of str
RECURSIVE Sorted(_)
Sorted(S) ==
    IF S = {} THEN <<>>
    ELSE LET least == CHOOSE x \in S : \A y \in S \ {x} : StrLess(x, y)
         IN <<least>> \o Sorted(S \ {least})

\* s.split(':')
RECURSIVE SplitColon(_)
SplitColon(s) ==
    LET cs == {i \in 1..Len(s) : s[i] = ":"}
    IN IF cs = {} THEN <<s>>
       ELSE LET p == CHOOSE i \in cs : \A j \in cs : i <= j
            IN <<SubSeq(s, 1, p - 1)>> \o SplitColon(SubSeq(s, p + 1, Len(s)))

\* the variant that keeps the whole path
TruncateSectionNot(section, level) == section

\* generate_report: ':'.join(section.split(':')[:level]); in the slice a
\* negative level counts from the end
TruncateSection(section, level) ==
    LET parts == SplitColon(section)
        stop  == IF level < 0 THEN Len(parts) + level ELSE level
        first == SubSeq(parts, 1, IF stop > Len(parts) THEN Len(parts)
                                  ELSE IF stop < 0 THEN 0 ELSE stop)
    IN Join(first, <<":">>)


Other == <<"O", "t", "h", "e", "r">>

\* sections.get(issue_key, 'Other')
SectionOf(secs, issue) == IF issue \in DOMAIN secs THEN secs[issue] ELSE Other

\* by_section of generate_report: the truncated section of every issue
BySection(issues, secs, level) ==
    [i \in issues |-> TruncateSection(SectionOf(secs, i), level)]

\* the tree of _add_to_tree, as the set of its node paths (the root is <<>>)
\* and the issues directly at a node
TreeNodes(by) ==
    {<<>>} \cup UNION {{SubSeq(SplitColon(by[i]), 1, n) : n \in 1..Len(SplitColon(by[i]))}
                          : i \in DOMAIN by}

NodeIssues(by, path) == {i \in DOMAIN by : SplitColon(by[i]) = path}

NodeChildren(by, path) ==
    {p \in TreeNodes(by) : Len(p) = Len(path) + 1 /\ SubSeq(p, 1, Len(path)) = path}

\* _node_total_seconds, every issue having one hour logged
NodeTotalSeconds(by, path) ==
    3600 * Cardinality({i \in DOMAIN by :
        /\ Len(SplitColon(by[i])) >= Len(path)
        /\ SubSeq(SplitColon(by[i]), 1, Len(path)) = path})

\* the lines of the report
Line(kind, hashes, text, seconds) ==
    [kind |-> kind, hashes |-> hashes, text |-> text, seconds |-> seconds]

RECURSIVE IssueLines(_, _)
IssueLines(keys, skip_worklogs) ==
    IF Len(keys) = 0 THEN <<>>
    ELSE <<Line("issue", 0, keys[1], 3600)>>
         \o (IF skip_worklogs THEN <<>> ELSE <<Line("comment", 0, keys[1], 0)>>)
         \o IssueLines(Tail(keys), skip_worklogs)

\* _render_node: a node without direct issues and with exactly one child is
\* collapsed into the child, at the node's own depth
RECURSIVE RenderNode(_, _, _, _)
RECURSIVE RenderChildren(_, _, _, _, _)
RenderNode(by, path, depth, skip_worklogs) ==
    LET children == NodeChildren(by, path)
        issues   == NodeIssues(by, path)
    IN IF issues = {} /\ Cardinality(children) = 1
       THEN RenderNode(by, CHOOSE c \in children : TRUE,
                       depth, skip_worklogs)
       ELSE (IF path # <<>>
             THEN <<Line("heading", depth + 1, Join(path, <<":">>),
                          NodeTotalSeconds(by, path)),
                     Line("blank", 0, <<>>, 0)>>
             ELSE <<>>)
            \o IssueLines(Sorted(issues), skip_worklogs)
            \o (IF issues # {} THEN <<Line("blank", 0, <<>>, 0)>> ELSE <<>>)
            \o RenderChildren(by, Sorted({c[Len(c)] : c \in children}), path, depth,
                              skip_worklogs)

RenderChildren(by, names, path, depth, skip_worklogs) ==
    IF Len(names) = 0 THEN <<>>
    ELSE RenderNode(by, Append(path, names[1]), depth + 1, skip_worklogs)
         \o RenderChildren(by, Tail(names), path, depth, skip_worklogs)

\* generate_report
generate_report(issues, secs, skip_worklogs, level) ==
    <<Line("title", 1, <<>>, 0), Line("blank", 0, <<>>, 0),
      Line("total", 0, <<>>, 3600 * Cardinality(issues)), Line("blank", 0, <<>>, 0)>>
    \o RenderNode(BySection(issues, secs, level), <<>>, 0, skip_worklogs)

\* int(arguments['--level'])
PyInt(text) ==
    IF Len(text) > 0 /\ text[1] = "-" THEN 0 - StrToInt(Tail(text)) ELSE StrToInt(text)

\* the issues of the Jira instance that can carry worklogs in the period
Issue ==
    [ A1 |-> <<"A", "-", "1">>,
      A2 |-> <<"A", "-", "2">>,
      B2 |-> <<"B", "-", "2">> ]

\* section paths
Section ==
    [ a |-> <<"a">>,
      b |-> <<"b">>,
      ab |-> <<"a", ":", "b">>,
      aba |-> <<"a", ":", "b", ":", "a">>,
      abb |-> <<"a", ":", "b", ":", "b">> ]

\* what the user types at the section prompt
SectionAnswers == {<<>>, <<"1">>, <<"2">>, Section.a, <<" ", "b", " ">>, Section.ab, Section.aba, Section.abb,
                   <<"a", ":">>}

NoSections == <<>>

\* contents of ~/.jira/report_sections.json before the run
StoredSections ==
    { NoSections,
      (Issue.A1 :> Section.b),
      (Issue.A1 :> Section.aba) @@ (Issue.B2 :> Section.ab),
      (Issue.A1 :> Section.a) @@ (Issue.A2 :> Section.abb) @@ (Issue.B2 :> Section.a) }

MaxLevel == 3

\* main: the mapping the run starts from, had --reset been ignored
InitialSectionsStored(reset, stored) == stored

\* main: sections = {} if arguments['--reset'] else load_sections()
InitialSections(reset, stored) == IF reset THEN NoSections ELSE stored

\* the section an answer names: a number within the menu picks from it
SectionName(answer, known) ==
    IF IsDigits(answer) /\ 1 <= StrToInt(answer) /\ StrToInt(answer) <= Len(known)
    THEN known[StrToInt(answer)]
    ELSE answer

Range(seq) == {seq[i] : i \in 1..Len(seq)}

\* the issues assign_sections still has to ask about, in its order
Unassigned(issues, secs) ==
    SelectSeq(Sorted(issues), LAMBDA i : i \notin DOMAIN secs)

\* main after assign_sections returned: save_sections, generate_report, print
FinishReport(issues, secs) ==
    /\ sections_file' = secs
    /\ file_written' = TRUE
    /\ report' = generate_report(issues, secs, arguments.skip_worklogs,
                                 PyInt(arguments.level))
    /\ report_msg' = "report"
    /\ report_exit' = Some(0)
    /\ report_pc' = "done"

\* main up to the first prompt of assign_sections
ReportMain(config_ok, period_ok, fetch_ok) ==
    /\ OnlyReport
    /\ report_pc = "start"
    /\ UNCHANGED <<arguments, jira_worklogs, stored_sections, answers>>
    /\ IF ~config_ok \/ ~period_ok
       THEN /\ report_msg' = (IF ~config_ok THEN "configuration_error" ELSE "bad_date")
            /\ report_exit' = Some(1)
            /\ report_pc' = "done"
            /\ UNCHANGED <<worklogs_by_issue, sections, known_section_names, asking,
                           prompts, sections_file, file_written, report>>
       ELSE IF ~fetch_ok \/ jira_worklogs = {}
       THEN \* get_timelogs_for_time_period returned []
            /\ report_msg' = "no_worklogs"
            /\ report_exit' = Some(0)
            /\ report_pc' = "done"
            /\ UNCHANGED <<worklogs_by_issue, sections, known_section_names, asking,
                           prompts, sections_file, file_written, report>>
       ELSE /\ worklogs_by_issue' = jira_worklogs
            /\ IF arguments.skip_categorization
               THEN /\ sections' = NoSections
                    /\ report' = generate_report(jira_worklogs, NoSections,
                                                 arguments.skip_worklogs,
                                                 PyInt(arguments.level))
                    /\ report_msg' = "report"
                    /\ report_exit' = Some(0)
                    /\ report_pc' = "done"
                    /\ UNCHANGED <<known_section_names, asking, prompts, sections_file,
                                   file_written>>
               ELSE LET secs == InitialSections(arguments.reset, sections_file)
                        todo == Unassigned(jira_worklogs, secs)
                    IN /\ sections' = secs
                       /\ known_section_names' = Sorted({secs[i] : i \in DOMAIN secs})
                       /\ asking' = todo
                       /\ IF Len(todo) = 0
                          THEN /\ FinishReport(jira_worklogs, secs)
                               /\ UNCHANGED prompts
                          ELSE /\ prompts' = <<todo[1]>>
                               /\ report_pc' = "asking"
                               /\ UNCHANGED <<sections_file, file_written, report,
                                              report_msg, report_exit>>

\* assign_sections: input() returned; the rest of the loop body, and the loop
\* up to the next prompt or to the end of main
AnswerSection(typed) ==
    /\ OnlyReport
    /\ report_pc = "asking"
    /\ UNCHANGED <<arguments, jira_worklogs, stored_sections, worklogs_by_issue>>
    /\ LET issue  == asking[1]
           answer == Strip(typed)
           name   == SectionName(answer, known_section_names)
           secs   == IF Len(answer) = 0 THEN sections
                     ELSE (issue :> name) @@ sections
           known  == IF Len(answer) = 0 \/ name \in Range(known_section_names)
                     THEN known_section_names
                     ELSE Sorted(Range(known_section_names) \cup {name})
           todo   == Tail(asking)
       IN /\ answers' = Append(answers, [issue |-> issue, typed |-> typed])
          /\ sections' = secs
          /\ known_section_names' = known
          /\ asking' = todo
          /\ IF Len(todo) = 0
             THEN /\ FinishReport(worklogs_by_issue, secs)
                  /\ UNCHANGED prompts
             ELSE /\ prompts' = Append(prompts, todo[1])
                  /\ UNCHANGED <<sections_file, file_written, report, report_msg,
                                 report_exit, report_pc>>

\* assign_sections: EOF or Ctrl-C at the prompt: sys.exit(1)
AbortSection ==
    /\ OnlyReport
    /\ report_pc = "asking"
    /\ report_pc' = "done"
    /\ report_exit' = Some(1)
    /\ UNCHANGED <<arguments, jira_worklogs, stored_sections, worklogs_by_issue, sections,
                   known_section_names, asking, prompts, answers, sections_file,
                   file_written, report, report_msg>>

\* jira-report is not running
ReportOff ==
    /\ report_pc = "off"
    /\ arguments = [reset |-> FALSE, skip_categorization |-> FALSE,
                    skip_worklogs |-> FALSE, level |-> <<"1">>]
    /\ jira_worklogs = {}
    /\ stored_sections = NoSections
    /\ sections_file = NoSections
    /\ file_written = FALSE
    /\ worklogs_by_issue = {}
    /\ sections = NoSections
    /\ known_section_names = <<>>
    /\ asking = <<>>
    /\ prompts = <<>>
    /\ answers = <<>>
    /\ report = <<>>
    /\ report_msg = "none"
    /\ report_exit = None

NextReport ==
    \/ \E config_ok \in BOOLEAN, period_ok \in BOOLEAN, fetch_ok \in BOOLEAN :
          ReportMain(config_ok, period_ok, fetch_ok)
    \/ \E typed \in SectionAnswers : AnswerSection(typed)
    \/ AbortSection

-----------------------------------------------------------------------------
(* github-synchronize (github_synchronize.py).                             *)

\* command.split(): the words of a text between runs of whitespace
RECURSIVE PySplit(_)
PySplit(s) ==
    IF Len(s) = 0 THEN <<>>
    ELSE IF s[1] \in Whitespace THEN PySplit(Tail(s))
    ELSE LET stops == {i \in 1..Len(s) : s[i] \in Whitespace}
             stop  == IF stops = {} THEN Len(s) + 1
                      ELSE CHOOSE i \in stops : \A j \in stops : i <= j
         IN <<SubSeq(s, 1, stop - 1)>> \o PySplit(SubSeq(s, stop, Len(s)))

\* run_git_command: the argument vector of the git process, and how it ended
RunGit(repo, command, ok) ==
    [repo |-> repo, argv |-> <<<<"g", "i", "t">>>> \o PySplit(command), ok |-> ok]

\* the git commands of the tool
Git ==
    [ status |-> <<"s", "t", "a", "t", "u", "s">>,
      branch |-> <<"b", "r", "a", "n", "c", "h", " ", "-", "-", "s", "h", "o", "w", "-", "c", "u", "r", "r", "e", "n", "t">>,
      diff_cached |-> <<"d", "i", "f", "f", " ", "-", "-", "c", "a", "c", "h", "e", "d", " ", "-", "-", "q", "u", "i", "e", "t">>,
      diff |-> <<"d", "i", "f", "f", " ", "-", "-", "q", "u", "i", "e", "t">>,
      ls_files |-> <<"l", "s", "-", "f", "i", "l", "e", "s", " ", "-", "-", "o", "t", "h", "e", "r", "s", " ", "-", "-", "e", "x", "c", "l", "u", "d", "e", "-", "s", "t", "a", "n", "d", "a", "r", "d">>,
      status_porcelain |-> <<"s", "t", "a", "t", "u", "s", " ", "-", "-", "p", "o", "r", "c", "e", "l", "a", "i", "n">>,
      add |-> <<"a", "d", "d", " ", ".">>,
      pull_rebase |-> <<"p", "u", "l", "l", " ", "-", "-", "r", "e", "b", "a", "s", "e">>,
      push |-> <<"p", "u", "s", "h">>,
      stash_push |-> <<"s", "t", "a", "s", "h", " ", "p", "u", "s", "h", " ", "-", "m", " ", "'", "g", "i", "t", "h", "u", "b", "-", "s", "y", "n", "c", "h", "r", "o", "n", "i", "z", "e", " ", "a", "u", "t", "o", "-", "s", "t", "a", "s", "h", "'">>,
      pull |-> <<"p", "u", "l", "l">>,
      stash_pop |-> <<"s", "t", "a", "s", "h", " ", "p", "o", "p">>,
      checkout_main |-> <<"c", "h", "e", "c", "k", "o", "u", "t", " ", "m", "a", "i", "n">> ]

\* f'commit -m "{commit_message}"'
GitCommit(commit_message) == <<"c", "o", "m", "m", "i", "t", " ", "-", "m", " ", "\"">> \o commit_message \o <<"\"">>

\* strftime('%Y-%m-%d')
FormatDate(date) ==
    LET TwoDigits(n) == IF n < 10 THEN <<"0">> \o IntToStr(n) ELSE IntToStr(n)
    IN IntToStr(date.year) \o <<"-">> \o TwoDigits(date.month)
           \o <<"-">> \o TwoDigits(date.day)

\* main: arguments.get('--message') or default_message, the run being on
\* 5 January 2024
CommitMessage(given) ==
    IF given = None \/ Len(given[1]) = 0
    THEN <<"d", "o", "c", "s", ":", " ", "u", "p", "d", "a", "t", "e", " ">>
             \o FormatDate([year |-> 2024, month |-> 1, day |-> 5])
    ELSE given[1]

\* what -m can be given as
MessageArgs ==
    {None, Some(<<"w", "i", "p">>), Some(<<"f", "i", "x", " ", "t", "y", "p", "o">>)}

\* the names of the entries of the working directory, and of the branches
Name ==
    [ B |-> <<"B">>,
      a |-> <<"a">>,
      b |-> <<"b">>,
      hidden |-> <<".", "h">>,
      file |-> <<"f">>,
      main |-> <<"m", "a", "i", "n">>,
      dev |-> <<"d", "e", "v">> ]

\* what an entry of the working directory is
NotThere == [is_dir |-> FALSE, git |-> FALSE, branch |-> <<>>, changes |-> "none", there |-> FALSE]
PlainFile == [is_dir |-> FALSE, git |-> FALSE, branch |-> <<>>, changes |-> "none", there |-> TRUE]
PlainDir == [is_dir |-> TRUE, git |-> FALSE, branch |-> <<>>, changes |-> "none", there |-> TRUE]
Repo(branch, changes) ==
    [is_dir |-> TRUE, git |-> TRUE, branch |-> branch, changes |-> changes, there |-> TRUE]

\* what a first-level directory can be
DirKinds ==
    {NotThere, PlainDir} \cup {Repo(Name.main, c) : c \in {"none", "staged", "unstaged", "untracked"}}
        \cup {Repo(Name.dev, "none"), Repo(Name.dev, "unstaged")}

\* d.is_dir() and not d.name.startswith('.')
Subdirectories(dir) ==
    {n \in DOMAIN dir : dir[n].there /\ dir[n].is_dir /\ ~StartsWith(n, <<".">>)}

\* has_changes: the commands it runs, up to the one that tells
HasChangesLog(repo, kind) ==
    IF kind.changes = "staged" THEN <<RunGit(repo, Git.diff_cached, FALSE)>>
    ELSE IF kind.changes = "unstaged"
    THEN <<RunGit(repo, Git.diff_cached, TRUE), RunGit(repo, Git.diff, FALSE)>>
    ELSE <<RunGit(repo, Git.diff_cached, TRUE), RunGit(repo, Git.diff, TRUE),
           RunGit(repo, Git.ls_files, TRUE)>>

\* a strategy, had it gone on after a failed command
RunRegardless(repo, cmds, fail_at) ==
    [k \in 1..Len(cmds) |-> RunGit(repo, cmds[k], k # fail_at)]

\* a strategy: the commands run one after the other until one fails;
\* fail_at is the position of the command that fails, 0 if none does
RECURSIVE RunUntilFailure(_, _, _)
RunUntilFailure(repo, cmds, fail_at) ==
    IF Len(cmds) = 0 THEN <<>>
    ELSE IF fail_at = 1 THEN <<RunGit(repo, cmds[1], FALSE)>>
    ELSE <<RunGit(repo, cmds[1], TRUE)>> \o RunUntilFailure(repo, Tail(cmds), fail_at - 1)

Succeeds(cmds, fail_at) == fail_at \notin 1..Len(cmds)

\* strategy_commit_rebase_push
CommitRebasePush(commit_message) ==
    <<Git.add, GitCommit(commit_message), Git.pull_rebase, Git.push>>

\* strategy_stash_pull_pop
StashPullPop == <<Git.stash_push, Git.pull, Git.stash_pop>>

\* process_repository, branch prompt answered y
CheckoutPull == <<Git.checkout_main, Git.pull>>

\* main, had the loop gone on after a failure
LoopAfterNoBreak(success, rest) ==
    IF Len(rest) = 0
    THEN [pc |-> "done", exit |-> Some(IF success THEN 0 ELSE 1)]
    ELSE [pc |-> "loop", exit |-> None]

\* main: after process_repository returned: break on failure, next
\* directory otherwise, the summary and the exit status at the end
LoopAfter(success, rest) ==
    IF ~success THEN [pc |-> "done", exit |-> Some(1)]
    ELSE IF Len(rest) = 0 THEN [pc |-> "done", exit |-> Some(0)]
    ELSE [pc |-> "loop", exit |-> None]

\* process_repository returned success for the directory at the head of the queue
Returned(success, log) ==
    LET after == LoopAfter(success, Tail(queue))
    IN /\ git_log' = git_log \o log
       /\ queue' = Tail(queue)
       /\ failed_repos' = IF success THEN failed_repos ELSE Append(failed_repos, Head(queue))
       /\ sync_pc' = after.pc
       /\ sync_exit' = after.exit
       /\ sync_summary' = IF after.pc # "done" THEN sync_summary
                          ELSE IF failed_repos' # <<>> THEN "failed" ELSE "all_ok"

\* main up to the loop
SyncMain ==
    /\ OnlySync
    /\ sync_pc = "start"
    /\ UNCHANGED <<directory, message, git_log, failed_repos>>
    /\ IF Subdirectories(directory) = {}
       THEN /\ sync_summary' = "no_subdirectories"
            /\ sync_exit' = Some(0)
            /\ sync_pc' = "done"
            /\ UNCHANGED queue
       ELSE /\ queue' = Sorted(Subdirectories(directory))
            /\ sync_pc' = "loop"
            /\ UNCHANGED <<sync_summary, sync_exit>>

\* process_repository up to its first prompt, or to its return
ProcessRepository(pull_ok) ==
    /\ OnlySync
    /\ sync_pc = "loop"
    /\ UNCHANGED <<directory, message>>
    /\ LET repo == Head(queue)
           kind == directory[repo]
       IN IF ~kind.git
          THEN Returned(TRUE, <<RunGit(repo, Git.status, FALSE)>>)
          ELSE LET log == <<RunGit(repo, Git.status, TRUE), RunGit(repo, Git.branch, TRUE)>>
                            \o HasChangesLog(repo, kind)
               IN IF kind.branch # Name.main
                  THEN IF kind.changes # "none"
                       THEN Returned(TRUE, log)
                       ELSE /\ git_log' = git_log \o log
                            /\ sync_pc' = "branch_prompt"
                            /\ UNCHANGED <<queue, failed_repos, sync_exit, sync_summary>>
                  ELSE IF kind.changes = "none"
                       THEN Returned(pull_ok, log \o <<RunGit(repo, Git.pull, pull_ok)>>)
                       ELSE /\ git_log' = git_log \o log
                                         \o <<RunGit(repo, Git.status_porcelain, TRUE)>>
                            /\ sync_pc' = "strategy_prompt"
                            /\ UNCHANGED <<queue, failed_repos, sync_exit, sync_summary>>

\* process_repository: 'Switch to main branch and pull? (y/n/s)' answered
AnswerBranch(typed, fail_at) ==
    /\ OnlySync
    /\ sync_pc = "branch_prompt"
    /\ UNCHANGED <<directory, message>>
    /\ LET choice == Strip(Lower(typed))
           repo   == Head(queue)
       IN IF choice = <<"y">>
          THEN Returned(Succeeds(CheckoutPull, fail_at),
                        RunUntilFailure(repo, CheckoutPull, fail_at))
          ELSE IF choice \in {<<"n">>, <<"s">>}
          THEN Returned(TRUE, <<>>)
          ELSE UNCHANGED <<git_log, queue, failed_repos, sync_pc, sync_exit, sync_summary>>

\* get_user_strategy answered, and the strategy run
AnswerStrategy(typed, fail_at) ==
    /\ OnlySync
    /\ sync_pc = "strategy_prompt"
    /\ UNCHANGED <<directory, message>>
    /\ LET choice == Strip(Lower(typed))
           repo   == Head(queue)
           cmds   == IF choice = <<"a">> THEN CommitRebasePush(CommitMessage(message))
                     ELSE StashPullPop
       IN IF choice \in {<<"a">>, <<"b">>}
          THEN Returned(Succeeds(cmds, fail_at), RunUntilFailure(repo, cmds, fail_at))
          ELSE IF choice = <<"s">>
          THEN Returned(TRUE, <<>>)
          ELSE UNCHANGED <<git_log, queue, failed_repos, sync_pc, sync_exit, sync_summary>>

\* main: KeyboardInterrupt at a prompt
InterruptSync ==
    /\ OnlySync
    /\ sync_pc \in {"branch_prompt", "strategy_prompt"}
    /\ sync_pc' = "done"
    /\ sync_exit' = Some(1)
    /\ sync_summary' = "interrupted"
    /\ UNCHANGED <<directory, message, git_log, queue, failed_repos>>

\* main: EOFError at a prompt is an Exception: the repository failed
EndOfInputSync ==
    /\ OnlySync
    /\ sync_pc \in {"branch_prompt", "strategy_prompt"}
    /\ UNCHANGED <<directory, message>>
    /\ Returned(FALSE, <<>>)

\* what is typed at the prompts of github-synchronize
SyncAnswers == {<<"a">>, <<"b">>, <<"s">>, <<"y">>, <<"n">>, <<" ", "A", " ">>, <<"x">>, <<>>}

\* github-synchronize is not running
SyncOff ==
    /\ sync_pc = "off"
    /\ directory = (Name.file :> PlainFile)
    /\ message = None
    /\ queue = <<>>
    /\ git_log = <<>>
    /\ failed_repos = <<>>
    /\ sync_exit = None
    /\ sync_summary = "none"

NextSync ==
    \/ SyncMain
    \/ \E pull_ok \in BOOLEAN : ProcessRepository(pull_ok)
    \/ \E typed \in SyncAnswers, fail_at \in 0..Len(CheckoutPull) : AnswerBranch(typed, fail_at)
    \/ \E typed \in SyncAnswers, fail_at \in 0..Len(CommitRebasePush(<<>>)) :
          AnswerStrategy(typed, fail_at)
    \/ InterruptSync
    \/ EndOfInputSync

-----------------------------------------------------------------------------
(* The Jira requests of jira --list, jira-report and jira-dates.           *)

\* sub in s
Contains(s, sub) ==
    \E i \in 1..(Len(s) - Len(sub) + 1) : SubSeq(s, i, i + Len(sub) - 1) = sub

\* max_results of find_issues_with_worklogs_in_period and get_issue_worklogs_in_period
MaxResults == 100

\* what the Jira instance holds: the pages the issue search answers with,
\* and the number of worklogs of the user in the period on each issue
JiraInstances ==
    {[pages |-> pages, totals |-> (Issue.A1 :> t1) @@ (Issue.A2 :> t2)] :
        pages \in {<<<<>>>>, <<<<Issue.A1>>>>, <<<<Issue.A1>>, <<Issue.A2>>>>},
        t1 \in {0, 1, MaxResults, MaxResults + 1},
        t2 \in {0, 1, MaxResults, MaxResults + 1}}

\* the gadgets of the dashboard
Gadget(id, title, module_key) == [id |-> id, title |-> title, module_key |-> module_key]

\* the gadgets dashboards are made of
Gadgets ==
    [ month |-> Gadget(1, <<"H", "o", "u", "r", "s", " ", "t", "h", "i", "s", " ", "M", "o", "n", "t", "h">>, <<"c", "o", "m", ".", "x", ":", "t", "i", "m", "e", "r", "e", "p", "o", "r", "t", "s", "-", "g", "a", "d", "g", "e", "t">>),
      week |-> Gadget(2, <<"M", "y", " ", "W", "E", "E", "K">>, <<"c", "o", "m", ".", "x", ":", "t", "i", "m", "e", "r", "e", "p", "o", "r", "t", "s", "-", "g", "a", "d", "g", "e", "t">>),
      other |-> Gadget(3, <<"B", "u", "r", "n", "d", "o", "w", "n">>, <<"c", "o", "m", ".", "x", ":", "t", "i", "m", "e", "r", "e", "p", "o", "r", "t", "s", "-", "g", "a", "d", "g", "e", "t">>),
      filter |-> Gadget(4, <<"W", "e", "e", "k", "l", "y", " ", "f", "i", "l", "t", "e", "r">>, <<"c", "o", "m", ".", "y", ":", "f", "i", "l", "t", "e", "r", "-", "r", "e", "s", "u", "l", "t", "s">>) ]

\* what the dashboard request answers with
Dashboards == {<<>>, <<Gadgets.filter>>, <<Gadgets.month>>, <<Gadgets.other, Gadgets.week>>, <<Gadgets.filter, Gadgets.month, Gadgets.week>>}

\* get_timetracker_gadgets: 'timereports-gadget' in module_key
TimetrackerGadgets(gadgets) ==
    SelectSeq(gadgets, LAMBDA g : Contains(g.module_key,
        <<"t", "i", "m", "e", "r", "e", "p", "o", "r", "t", "s", "-", "g", "a", "d", "g", "e", "t">>))

\* auto_update_timetracker_gadgets: is_month or is_week
IsPeriodGadget(g) ==
    \/ Contains(Lower(g.title), Lower(<<"m", "o", "n", "t", "h">>))
    \/ Contains(Lower(g.title), Lower(<<"w", "e", "e", "k">>))

\* auto_update_timetracker_gadgets: the loop skips the gadgets that are
\* neither; what is left begins with the next gadget to ask Jira about
RECURSIVE SkipOtherGadgets(_)
SkipOtherGadgets(gadgets) ==
    IF Len(gadgets) = 0 \/ IsPeriodGadget(gadgets[1]) THEN gadgets
    ELSE SkipOtherGadgets(Tail(gadgets))

\* jira-dates main: 0 if success else 1, success being True when no gadget
\* was found and updated_count > 0 otherwise
DatesExit(found, count) == IF found = 0 \/ count > 0 THEN 0 ELSE 1

FailureMessage(kind, outcome) ==
    IF outcome = "http_error" THEN <<kind, "failed_status">> ELSE <<kind, "error_connecting">>

Sent(kind, param, outcome) == [kind |-> kind, param |-> param, outcome |-> outcome]

\* the number of worklogs fetched over all issues
RECURSIVE SumCounts(_)
SumCounts(list) == IF Len(list) = 0 THEN 0 ELSE list[1].count + SumCounts(Tail(list))

\* main of jira --list and of jira-report, once get_timelogs_for_time_period returned
Fetched(list, printed) ==
    /\ worklogs' = list
    /\ IF SumCounts(list) = 0
       THEN /\ fetch_out' = Append(printed, <<"main", "no_worklogs_found">>)
            /\ fetch_exit' = Some(0)
            /\ fetch_pc' = "done"
       ELSE IF tool = "jira_list"
       THEN /\ fetch_out' = Append(printed, <<"main", "worklogs_and_total">>)
            /\ fetch_exit' = Some(0)
            /\ fetch_pc' = "done"
       ELSE \* jira-report goes on to the sections
            /\ fetch_out' = printed
            /\ fetch_exit' = None
            /\ fetch_pc' = "fetched"

\* get_timelogs_for_time_period: the loop over the issues found
NextIssue(issues, list, printed) ==
    IF Len(issues) = 0
    THEN /\ Fetched(list, printed)
         /\ UNCHANGED <<start_at, all_worklogs>>
         /\ issue_queue' = issues
    ELSE /\ issue_queue' = issues
         /\ start_at' = 0
         /\ all_worklogs' = 0
         /\ worklogs' = list
         /\ fetch_out' = printed
         /\ fetch_pc' = "worklog"
         /\ UNCHANGED fetch_exit

\* the pages fetched so far, had a failed request returned them
KeepFetched(fetched) == fetched

\* return [] after a failed request: the pages fetched so far are dropped
Discard(fetched) == <<>>

\* main up to the first request; for the update command of the shell, main
\* and update_cache up to get_recent_issues
FetchMain(config_ok, args_ok) ==
    /\ OnlyFetch
    /\ fetch_pc = "start"
    /\ UNCHANGED <<tool, recent_issues, jira, dashboard, requests_log, next_page_token, all_issues,
                   issue_queue, start_at, all_worklogs, worklogs, gadget_queue,
                   gadgets_found, updated_count>>
    /\ IF ~config_ok \/ ~args_ok
       THEN /\ fetch_out' = <<<<"main", IF ~config_ok THEN "configuration_error"
                                        ELSE "bad_arguments">>>>
            /\ fetch_exit' = Some(1)
            /\ fetch_pc' = "done"
       ELSE /\ fetch_pc' = IF tool = "jira_dates" THEN "gadgets"
                          ELSE IF tool = "jira_update" THEN "recent"
                          ELSE "search"
            /\ UNCHANGED <<fetch_out, fetch_exit>>

\* find_issues_with_worklogs_in_period: one requests.get and what follows it
SearchResponse(outcome) ==
    /\ OnlyFetch
    /\ fetch_pc = "search"
    /\ UNCHANGED <<tool, recent_issues, jira, dashboard, gadget_queue, gadgets_found, updated_count>>
    /\ LET page_no == IF next_page_token = None THEN 1 ELSE next_page_token[1]
           found   == all_issues \o jira.pages[page_no]
       IN /\ requests_log' = Append(requests_log, Sent("search", next_page_token, outcome))
          /\ IF outcome = "ok"
             THEN /\ all_issues' = found
                  /\ IF page_no < Len(jira.pages)
                     THEN /\ next_page_token' = Some(page_no + 1)
                          /\ UNCHANGED <<issue_queue, start_at, all_worklogs, worklogs,
                                         fetch_out, fetch_exit, fetch_pc>>
                     ELSE /\ next_page_token' = None
                          /\ NextIssue(found, <<>>, fetch_out)
             ELSE \* return []
                  /\ UNCHANGED <<all_issues, next_page_token>>
                  /\ NextIssue(Discard(all_issues), <<>>,
                               Append(fetch_out, FailureMessage("search", outcome)))

\* get_issue_worklogs_in_period: one requests.get and what follows it
WorklogResponse(outcome) ==
    /\ OnlyFetch
    /\ fetch_pc = "worklog"
    /\ UNCHANGED <<tool, recent_issues, jira, dashboard, next_page_token, all_issues, gadget_queue,
                   gadgets_found, updated_count>>
    /\ LET issue == Head(issue_queue)
           total == jira.totals[issue]
           left  == IF total > start_at THEN total - start_at ELSE 0
           got   == all_worklogs + (IF left > MaxResults THEN MaxResults ELSE left)
       IN /\ requests_log' = Append(requests_log, Sent("worklog", Some(<<issue, start_at>>), outcome))
          /\ IF outcome = "ok"
             THEN IF start_at + MaxResults >= total
                  THEN NextIssue(Tail(issue_queue),
                                 Append(worklogs, [issue |-> issue, count |-> got]),
                                 fetch_out)
                  ELSE /\ start_at' = start_at + MaxResults
                       /\ all_worklogs' = got
                       /\ UNCHANGED <<issue_queue, worklogs, fetch_out, fetch_exit, fetch_pc>>
             ELSE \* return []
                  NextIssue(Tail(issue_queue),
                            Append(worklogs, [issue |-> issue, count |-> 0]),
                            Append(fetch_out, FailureMessage("worklog", outcome)))

\* update_cache, once get_recent_issues returned: the cache file is written
\* either way, and the shell is back at its prompt
UpdateCache(issues, printed) ==
    /\ recent_issues' = Some(issues)
    /\ fetch_out' = Append(printed, <<"update", IF Len(issues) > 0 THEN "cache_updated"
                                                ELSE "no_recent_issues">>)
    /\ fetch_pc' = "prompt"

\* get_recent_issues: one requests.get and what follows it
RecentResponse(outcome) ==
    /\ OnlyFetch
    /\ fetch_pc = "recent"
    /\ UNCHANGED <<tool, jira, dashboard, issue_queue, start_at, all_worklogs, worklogs,
                   gadget_queue, gadgets_found, updated_count, fetch_exit>>
    /\ LET page_no == IF next_page_token = None THEN 1 ELSE next_page_token[1]
           found   == all_issues \o jira.pages[page_no]
       IN /\ requests_log' = Append(requests_log, Sent("recent", next_page_token, outcome))
          /\ IF outcome = "ok"
             THEN /\ all_issues' = found
                  /\ IF page_no < Len(jira.pages)
                     THEN /\ next_page_token' = Some(page_no + 1)
                          /\ UNCHANGED <<recent_issues, fetch_out, fetch_pc>>
                     ELSE /\ next_page_token' = None
                          /\ UpdateCache(found, fetch_out)
             ELSE \* return []
                  /\ UNCHANGED <<all_issues, next_page_token>>
                  /\ UpdateCache(Discard(all_issues),
                                 Append(fetch_out, FailureMessage("recent", outcome)))

\* auto_update_timetracker_gadgets: the loop over the gadgets, and main's return
NextGadget(gadgets, found, count, printed) ==
    LET rest == SkipOtherGadgets(gadgets)
    IN /\ gadget_queue' = rest
       /\ gadgets_found' = found
       /\ updated_count' = count
       /\ IF Len(rest) = 0
          THEN /\ fetch_out' = Append(printed, <<"main", IF found = 0 THEN "no_gadgets_found"
                                                        ELSE "summary">>)
               /\ fetch_exit' = Some(DatesExit(found, count))
               /\ fetch_pc' = "done"
          ELSE /\ fetch_out' = printed
               /\ fetch_pc' = "gadget_config"
               /\ UNCHANGED fetch_exit

\* get_timetracker_gadgets: its requests.get and what follows it
GadgetsResponse(outcome) ==
    /\ OnlyFetch
    /\ fetch_pc = "gadgets"
    /\ UNCHANGED <<tool, recent_issues, jira, dashboard, next_page_token, all_issues, issue_queue,
                   start_at, all_worklogs, worklogs>>
    /\ requests_log' = Append(requests_log, Sent("gadgets", None, outcome))
    /\ IF outcome = "ok"
       THEN LET gadgets == TimetrackerGadgets(dashboard)
            IN NextGadget(gadgets, Len(gadgets), 0, fetch_out)
       ELSE NextGadget(<<>>, 0, 0, Append(fetch_out, FailureMessage("gadgets", outcome)))

\* get_gadget_config: its requests.get and what follows it
ConfigResponse(outcome) ==
    /\ OnlyFetch
    /\ fetch_pc = "gadget_config"
    /\ UNCHANGED <<tool, recent_issues, jira, dashboard, next_page_token, all_issues, issue_queue,
                   start_at, all_worklogs, worklogs>>
    /\ requests_log' = Append(requests_log, Sent("gadget_config", Some(Head(gadget_queue).id),
                                                 outcome))
    /\ IF outcome = "ok"
       THEN /\ fetch_pc' = "gadget_update"
            /\ UNCHANGED <<gadget_queue, gadgets_found, updated_count, fetch_out, fetch_exit>>
       ELSE NextGadget(Tail(gadget_queue), gadgets_found, updated_count,
                       Append(fetch_out, FailureMessage("gadget_config", outcome)))

\* update_gadget_config: its requests.put and what follows it
UpdateResponse(outcome) ==
    /\ OnlyFetch
    /\ fetch_pc = "gadget_update"
    /\ UNCHANGED <<tool, recent_issues, jira, dashboard, next_page_token, all_issues, issue_queue,
                   start_at, all_worklogs, worklogs>>
    /\ requests_log' = Append(requests_log, Sent("gadget_update", Some(Head(gadget_queue).id),
                                                 outcome))
    /\ IF outcome = "ok"
       THEN NextGadget(Tail(gadget_queue), gadgets_found, updated_count + 1, fetch_out)
       ELSE NextGadget(Tail(gadget_queue), gadgets_found, updated_count,
                       Append(fetch_out, FailureMessage("gadget_update", outcome)))

\* none of the three tools is running
FetchOff ==
    /\ fetch_pc = "off"
    /\ tool = "none"
    /\ jira = [pages |-> <<<<>>>>, totals |-> <<>>]
    /\ dashboard = <<>>
    /\ requests_log = <<>>
    /\ next_page_token = None
    /\ all_issues = <<>>
    /\ recent_issues = None
    /\ issue_queue = <<>>
    /\ start_at = 0
    /\ all_worklogs = 0
    /\ worklogs = <<>>
    /\ gadget_queue = <<>>
    /\ gadgets_found = 0
    /\ updated_count = 0
    /\ fetch_out = <<>>
    /\ fetch_exit = None

NextFetch ==
    \/ \E config_ok \in BOOLEAN, args_ok \in BOOLEAN : FetchMain(config_ok, args_ok)
    \/ \E outcome \in ApiResults : SearchResponse(outcome)
    \/ \E outcome \in ApiResults : WorklogResponse(outcome)
    \/ \E outcome \in ApiResults : RecentResponse(outcome)
    \/ \E outcome \in ApiResults : GadgetsResponse(outcome)
    \/ \E outcome \in ApiResults : ConfigResponse(outcome)
    \/ \E outcome \in ApiResults : UpdateResponse(outcome)

-----------------------------------------------------------------------------
(* Specifications: one per tool; the tools share nothing at run time.      *)

Init == InitParse /\ InitShell /\ ReportOff /\ SyncOff /\ FetchOff

NextParse == SpellTime \/ TypeTime \/ ParseTime \/ NextTime

\* the interactive jira shell
Spec == Init /\ [][Next]_vars

\* parse_time_to_seconds on spelled and typed time strings
SpecParse == Init /\ [][NextParse]_vars

\* jira-report was started with some arguments, sections file and worklogs
InitReport ==
    /\ InitParse /\ InitShell /\ SyncOff /\ FetchOff
    /\ report_pc = "start"
    /\ arguments \in [reset : BOOLEAN, skip_categorization : BOOLEAN,
                      skip_worklogs : BOOLEAN, level : {<<"-", "1">>} \cup {IntToStr(n) : n \in 0..MaxLevel}]
    /\ jira_worklogs \in {{}, {Issue.A1}, {Issue.A1, Issue.A2}, {Issue.A2, Issue.B2},
                         {Issue.A1, Issue.A2, Issue.B2}}
    /\ stored_sections \in StoredSections
    /\ sections_file = stored_sections
    /\ file_written = FALSE
    /\ worklogs_by_issue = {}
    /\ sections = NoSections
    /\ known_section_names = <<>>
    /\ asking = <<>>
    /\ prompts = <<>>
    /\ answers = <<>>
    /\ report = <<>>
    /\ report_msg = "none"
    /\ report_exit = None

\* a run of jira-report
SpecReport == InitReport /\ [][NextReport]_vars

\* github-synchronize was started in some directory
InitSync ==
    /\ InitParse /\ InitShell /\ ReportOff /\ FetchOff
    /\ sync_pc = "start"
    /\ \E kB \in DirKinds, ka \in DirKinds, kb \in DirKinds :
          directory = (Name.B :> kB) @@ (Name.a :> ka) @@ (Name.b :> kb)
                        @@ (Name.hidden :> Repo(Name.main, "unstaged")) @@ (Name.file :> PlainFile)
    /\ message \in MessageArgs
    /\ queue = <<>>
    /\ git_log = <<>>
    /\ failed_repos = <<>>
    /\ sync_exit = None
    /\ sync_summary = "none"

\* a run of github-synchronize
SpecSync == InitSync /\ [][NextSync]_vars

\* one of the tools was started against some Jira instance
InitFetch ==
    /\ InitParse /\ InitShell /\ ReportOff /\ SyncOff
    /\ fetch_pc = "start"
    /\ tool \in {"jira_list", "jira_report", "jira_dates", "jira_update"}
    /\ jira \in JiraInstances
    /\ dashboard \in Dashboards
    /\ requests_log = <<>>
    /\ next_page_token = None
    /\ all_issues = <<>>
    /\ recent_issues = None
    /\ issue_queue = <<>>
    /\ start_at = 0
    /\ all_worklogs = 0
    /\ worklogs = <<>>
    /\ gadget_queue = <<>>
    /\ gadgets_found = 0
    /\ updated_count = 0
    /\ fetch_out = <<>>
    /\ fetch_exit = None

\* a run of jira --list, jira-report, jira-dates or of the update command of
\* the jira shell against Jira
SpecFetch == InitFetch /\ [][NextFetch]_vars


-----------------------------------------------------------------------------
(* C2: parse_time_to_seconds maps '1h30m' to 5400 seconds, and for all     *)
(* hours H >= 0 and minutes M < 60 the spellings 'HhMm', 'Hh Mm', 'HhM'    *)
(* and 'H:M' all parse to H*3600 + M*60 seconds.                           *)
C2_SpellingsAgree ==
    parse_pc = "parsed" =>
        /\ time_str = <<"1", "h", "3", "0", "m">> => parse_result = Seconds(5400)
        /\ time_in.shape \in Spellings =>
              parse_result = Seconds(time_in.h * 3600 + time_in.m * 60)

\* '1h30' (no trailing m) has been parsed
C2_Witness ==
    /\ parse_pc = "parsed"
    /\ time_in = [shape |-> "HhM", h |-> 1, m |-> 30]
    /\ parse_result.ok

-----------------------------------------------------------------------------
A_1 == <<"A", "-", "1">>
B_2 == <<"B", "-", "2">>

\* a step of the shell that answered an input() call and did not end the shell
ShellHandled == now' = now /\ shell_pc' # "exited"

FirstWordIs(line, word) ==
    /\ shlex_split(line).ok
    /\ shlex_split(line).parts # <<>>
    /\ shlex_split(line).parts[1] = word

(* C3: the shell returns to its prompt after every input line, whatever    *)
(* its content, and ends only on end-of-input or keyboard interrupt, with  *)
(* exit code 0.                                                            *)
C3_ReturnsToPrompt ==
    /\ shell_pc \in {"start", "prompt", "stale_prompt", "exited"}
    /\ (shell_pc = "exited" /\ out = "exiting") => shell_exit = Some(0)

(* C4: after `set DATE` with a parseable DATE the working date is DATE, and *)
(* only `reset`, another `set` or an accepted stale-date reset change it;  *)
(* `reset` clears it; a `set` with an unparseable DATE leaves it as it     *)
(* was; every worklog is posted with the working date (the set date, or    *)
(* today's date when none is set) as its start date.                       *)
C4_WorkingDate ==
    [][ShellHandled =>
          /\ request' # None =>
                request'[1].day = IF current_date' # None THEN current_date'[1]
                                  ELSE now' \div DaySeconds
          /\ current_date' # current_date =>
                \/ shell_pc = "prompt" /\ dispatched' = "set_date_command"
                \/ shell_pc = "prompt" /\ dispatched' = "reset_date_command"
                \/ shell_pc = "stale_prompt" /\ current_date' = None
          /\ (shell_pc = "prompt" /\ dispatched' = "reset_date_command") =>
                current_date' = None
          /\ (shell_pc = "prompt" /\ last_line' = Join(<<Word.set, Typed.d1>>, Typed.sp)) =>
                current_date' = Some(1)
          /\ (shell_pc = "prompt" /\ last_line' = Join(<<Word.set, Word.yesterday>>, Typed.sp)) =>
                current_date' = Some((now \div DaySeconds) - 1)
          /\ (shell_pc = "prompt" /\ last_line' = Join(<<Word.set, Typed.junk>>, Typed.sp)) =>
                current_date' = current_date
       ]_vars

\* a worklog has been posted on the set date, which is not today
C4_Witness ==
    /\ out = "logged"
    /\ request # None
    /\ current_date = Some(1)
    /\ request[1].day = 1
    /\ now \div DaySeconds = 0

(* C5: after `remove X` the upper-cased key X is in neither the saved nor   *)
(* the excluded set, and every other key of both sets is unchanged.        *)
C5_RemoveFrame ==
    [][\A k \in {<<Typed.a1, A_1>>, <<Typed.B2, B_2>>} :
          (ShellHandled /\ shell_pc = "prompt"
             /\ last_line' = Join(<<Word.remove, k[1]>>, Typed.sp)) =>
                /\ saved_issues' = saved_issues \ {k[2]}
                /\ excluded_issues' = excluded_issues \ {k[2]}
       ]_vars

\* `remove a-1` took A-1 out of the excluded set and left B-2 saved
C5_Witness ==
    /\ last_line = Join(<<Word.remove, Typed.a1>>, Typed.sp)
    /\ out = "removed"
    /\ A_1 \notin saved_issues \cup excluded_issues
    /\ B_2 \in saved_issues

(* C6: an input line `calendar ARGS` is dispatched to a calendar command    *)
(* (not reported as an unknown command, not dispatched to another one).    *)
C6_CalendarDispatched ==
    (shell_pc = "prompt" /\ FirstWordIs(last_line, Word.calendar)) =>
        dispatched = "calendar_command"

-----------------------------------------------------------------------------
(* jira-report: reading the printed report.                                *)

ReportPrinted == report_pc = "done" /\ report_msg = "report"

Level == PyInt(arguments.level)

HeadingLines == {i \in 1..Len(report) : report[i].kind = "heading"}
IssueLineNumbers == {i \in 1..Len(report) : report[i].kind = "issue"}

\* the heading an issue line stands under: the nearest heading above it
HeadingAbove(i) ==
    LET above == {h \in HeadingLines : h < i}
    IN IF above = {} THEN None
       ELSE Some(report[CHOOSE h \in above : \A g \in above : g <= h].text)

\* the first n colon-separated components of a section path, read off the text
RECURSIVE FirstComponents(_, _)
FirstComponents(s, n) ==
    IF n <= 0 \/ Len(s) = 0 THEN <<>>
    ELSE IF s[1] = ":"
         THEN (IF n = 1 THEN <<>> ELSE <<":">> \o FirstComponents(Tail(s), n - 1))
         ELSE <<s[1]>> \o FirstComponents(Tail(s), n)

\* the number of colon-separated components of a path
ComponentCount(s) == 1 + Cardinality({i \in 1..Len(s) : s[i] = ":"})

\* every issue once, under its assigned section cut to the first n components
GroupedByLevel(n) ==
    /\ \A k \in worklogs_by_issue :
          Cardinality({i \in IssueLineNumbers : report[i].text = k}) = 1
    /\ \A i \in IssueLineNumbers :
          HeadingAbove(i) = Some(FirstComponents(SectionOf(sections, report[i].text), n))
    /\ \A h \in HeadingLines : ComponentCount(report[h].text) <= n

-----------------------------------------------------------------------------
(* C7: with --level 1 every section of the report is a heading one level   *)
(* below the title ('## section' under '# Report ...') with its issues as  *)
(* bullets beneath it, whatever the number of distinct sections.           *)
C7_TwoLevels ==
    (ReportPrinted /\ Level = 1) =>
        /\ \A h \in HeadingLines : report[h].hashes = report[1].hashes + 1
        /\ \A i \in IssueLineNumbers : HeadingAbove(i) # None

-----------------------------------------------------------------------------
(* C8 as stated: in the report every issue is grouped under its assigned   *)
(* section path truncated to its first LEVEL components ('Other' without   *)
(* an assignment), and no heading shows more than LEVEL components.        *)
C8_AnyLevel == ReportPrinted => GroupedByLevel(Level)

(* C8: for LEVEL >= 1, in the report every issue is grouped under its      *)
(* assigned section path truncated to its first LEVEL colon-separated      *)
(* components ('Other' without an assignment), and no section heading      *)
(* shows a path with more than LEVEL components.                           *)
C8_TruncatedToLevel == (ReportPrinted /\ Level >= 1) => GroupedByLevel(Level)

\* a three-component section was cut to two components, beside an issue
\* without assignment
C8_Witness ==
    /\ ReportPrinted
    /\ Level = 2
    /\ Issue.A1 \in DOMAIN sections /\ sections[Issue.A1] = Section.aba
    /\ Issue.A2 \in worklogs_by_issue /\ Issue.A2 \notin DOMAIN sections
    /\ \E i \in IssueLineNumbers : report[i].text = Issue.A1 /\ HeadingAbove(i) = Some(Section.ab)
    /\ \E i \in IssueLineNumbers : report[i].text = Issue.A2 /\ HeadingAbove(i) = Some(Other)

-----------------------------------------------------------------------------
(* jira-report: what was typed during the run.                             *)

Answered == {k \in 1..Len(answers) : Len(Strip(answers[k].typed)) > 0}

\* the sections file holds the assignments typed in this run and nothing
\* else: a name typed is stored as typed, a number stands for itself or for
\* a name assigned earlier in this run
FileIsThisRun ==
    /\ file_written
    /\ DOMAIN sections_file = {answers[k].issue : k \in Answered}
    /\ \A k \in Answered :
          LET typed == Strip(answers[k].typed)
              value == sections_file[answers[k].issue]
          IN IF IsDigits(typed)
             THEN \/ value = typed
                  \/ \E j \in Answered : j < k /\ value = sections_file[answers[j].issue]
             ELSE value = typed

-----------------------------------------------------------------------------
(* C9 as stated: with --reset, every issue with worklogs in the period is  *)
(* prompted for a section, and the sections file written at the end of     *)
(* the run contains exactly the assignments made during this run.          *)
C9_ResetAlways ==
    (ReportPrinted /\ arguments.reset) =>
        /\ Range(prompts) = worklogs_by_issue
        /\ FileIsThisRun

(* C9: with --reset and without --skip-categorization, the stored section  *)
(* mappings have no effect on a run that prints a report: every issue with *)
(* worklogs in the period is prompted for a section, and the sections file *)
(* written at the end contains exactly the assignments made in this run.   *)
C9_ResetStartsFresh ==
    (ReportPrinted /\ arguments.reset /\ ~arguments.skip_categorization) =>
        /\ Range(prompts) = worklogs_by_issue
        /\ FileIsThisRun

\* a stored mapping of A-1 was there, A-1 was asked about all the same and
\* the file now holds what was typed
C9_Witness ==
    /\ ReportPrinted
    /\ arguments.reset /\ ~arguments.skip_categorization
    /\ Issue.A1 \in DOMAIN stored_sections
    /\ Issue.B2 \in DOMAIN stored_sections /\ Issue.B2 \notin DOMAIN sections_file
    /\ Issue.A1 \in Range(prompts)
    /\ Issue.A1 \in DOMAIN sections_file
    /\ sections_file[Issue.A1] # stored_sections[Issue.A1]

-----------------------------------------------------------------------------
(* github-synchronize: reading the log of git processes.                   *)

\* the git commands that synchronize: process_repository fails when one fails
SyncCommands == {<<"a", "d", "d">>, <<"c", "o", "m", "m", "i", "t">>, <<"p", "u", "l", "l">>, <<"p", "u", "s", "h">>, <<"s", "t", "a", "s", "h">>, <<"c", "h", "e", "c", "k", "o", "u", "t">>}

FailedSync(i) == ~git_log[i].ok /\ git_log[i].argv[2] \in SyncCommands

\* the first-level subdirectories the tool goes through: those not hidden
Visible == {n \in DOMAIN directory : directory[n].is_dir /\ n[1] # "."}

LoggedRepos == {git_log[i].repo : i \in 1..Len(git_log)}

-----------------------------------------------------------------------------
(* C10: github-synchronize goes through the first-level subdirectories in  *)
(* sorted order and stops at the first repository whose synchronization    *)
(* fails (a failed add, commit, rebase, pull, push, stash, stash pop or    *)
(* checkout): no git command is run afterwards, in that or in any later    *)
(* repository, and the exit code is 1.                                     *)
C10_StopsAtFirstFailure ==
    /\ \A i \in 1..Len(git_log) : \A j \in (i + 1)..Len(git_log) :
          \/ git_log[i].repo = git_log[j].repo
          \/ StrLess(git_log[i].repo, git_log[j].repo)
    /\ \A i \in 1..Len(git_log) :
          FailedSync(i) => /\ i = Len(git_log)
                           /\ sync_pc = "done"
                           /\ sync_exit = Some(1)
    /\ LoggedRepos \subseteq Visible
    /\ sync_exit = Some(0) => LoggedRepos = Visible

\* B was synchronized, the stash pop in a failed, and b, a repository with
\* changes, was left alone
C10_Witness ==
    /\ sync_pc = "done"
    /\ sync_exit = Some(1)
    /\ directory[Name.b] = Repo(Name.main, "staged")
    /\ LoggedRepos = {Name.B, Name.a}
    /\ \E i \in 1..Len(git_log) : git_log[i].repo = Name.B /\ git_log[i].argv[2] = <<"p", "u", "s", "h">>
    /\ LET last == git_log[Len(git_log)]
       IN /\ last.repo = Name.a
          /\ last.argv = <<<<"g", "i", "t">>, <<"s", "t", "a", "s", "h">>, <<"p", "o", "p">>>>
          /\ ~last.ok

-----------------------------------------------------------------------------
(* C1: whenever a Jira request made by jira --list, jira-report or         *)
(* jira-dates fails (non-success status or connection error), the tool     *)
(* prints an error message and its main returns a non-zero exit code.      *)
C1_FailureExitsNonZero ==
    (fetch_pc = "done" /\ \E i \in 1..Len(requests_log) : requests_log[i].outcome # "ok") =>
        /\ \E k \in 1..Len(fetch_out) :
              fetch_out[k][2] \in {"failed_status", "error_connecting"}
        /\ fetch_exit # None
        /\ fetch_exit # Some(0)

-----------------------------------------------------------------------------
\* the repositories that were not on main when the tool came to them
NotOnMain == {n \in DOMAIN directory : directory[n].git /\ directory[n].branch # Name.main}

(* C11: a repository whose current branch is not main is skipped by        *)
(* github-synchronize: no state-changing git command (checkout, pull, add, *)
(* commit, stash, push) is run in it, whatever the user answers.           *)
C11_NotOnMainSkipped ==
    \A i \in 1..Len(git_log) :
        git_log[i].repo \in NotOnMain => git_log[i].argv[2] \notin SyncCommands

-----------------------------------------------------------------------------
\* the step of strategy (a) that the i-th git process is: 1 add, 2 commit,
\* 3 pull --rebase, 4 push, and 0 for any other command
Step(i) ==
    LET argv == git_log[i].argv
    IN IF argv[2] = <<"a", "d", "d">> THEN 1
       ELSE IF argv[2] = <<"c", "o", "m", "m", "i", "t">> THEN 2
       ELSE IF argv[2] = <<"p", "u", "l", "l">> /\ Len(argv) > 2
                 /\ argv[3] = <<"-", "-", "r", "e", "b", "a", "s", "e">> THEN 3
       ELSE IF argv[2] = <<"p", "u", "s", "h">> THEN 4
       ELSE 0

(* C12: strategy (a) of github-synchronize runs git add, git commit,       *)
(* git pull --rebase and git push in that order, each step only if every   *)
(* preceding step succeeded (and always when it did); push is never run    *)
(* after a failed rebase, and the repository counts as synchronized only   *)
(* if all four steps succeeded.                                            *)
C12_CommitRebasePushInOrder ==
    /\ \A i \in 1..Len(git_log) :
          Step(i) > 1 => /\ i > 1
                         /\ git_log[i - 1].repo = git_log[i].repo
                         /\ Step(i - 1) = Step(i) - 1
                         /\ git_log[i - 1].ok
    /\ \A i \in 1..Len(git_log) :
          (Step(i) \in 1..3 /\ git_log[i].ok) =>
              /\ i < Len(git_log)
              /\ git_log[i + 1].repo = git_log[i].repo
              /\ Step(i + 1) = Step(i) + 1
    /\ \A i \in 1..Len(git_log) :
          (Step(i) = 1 /\ git_log[i].repo \notin Range(failed_repos)) =>
              /\ i + 3 <= Len(git_log)
              /\ \A k \in 0..3 : /\ git_log[i + k].repo = git_log[i].repo
                                 /\ Step(i + k) = k + 1
                                 /\ git_log[i + k].ok

\* strategy (a) went through in B and was pushed; in a the rebase failed,
\* nothing was pushed there and a is reported as failed
C12_Witness ==
    /\ sync_pc = "done"
    /\ failed_repos = <<Name.a>>
    /\ \E i \in 1..Len(git_log) :
          git_log[i].repo = Name.B /\ Step(i) = 4 /\ git_log[i].ok
    /\ LET last == Len(git_log)
       IN /\ git_log[last].repo = Name.a
          /\ Step(last) = 3
          /\ ~git_log[last].ok

-----------------------------------------------------------------------------
(* C13: the commit created by strategy (a) of github-synchronize has       *)
(* exactly the configured commit message (the --message value, or          *)
(* 'docs: update <today>' by default): the whole message, spaces included, *)
(* reaches git as the single argument of commit -m.                        *)
C13_MessageIsOneArgument ==
    \A i \in 1..Len(git_log) :
        git_log[i].argv[2] = <<"c", "o", "m", "m", "i", "t">> =>
            git_log[i].argv = << <<"g", "i", "t">>, <<"c", "o", "m", "m", "i", "t">>,
                                 <<"-", "m">>, CommitMessage(message) >>

-----------------------------------------------------------------------------
\* the i-th request failed: a status other than 200, or no connection
FailedRequest(i) == requests_log[i].outcome # "ok"

\* the i-th and the j-th request were sent by the same call of a function:
\* the same search, the worklogs of the same issue, the same gadget
SameCall(i, j) ==
    /\ requests_log[i].kind = requests_log[j].kind
    /\ IF requests_log[i].kind \in {"search", "recent"} THEN TRUE
       ELSE IF requests_log[i].kind = "worklog"
       THEN requests_log[i].param[1][1] = requests_log[j].param[1][1]
       ELSE requests_log[i].param = requests_log[j].param

(* C14: no Jira request is ever retried, and when any page of a paginated  *)
(* issue search or worklog fetch fails (non-200 status or connection       *)
(* error) the function returns an empty list, discarding the results of    *)
(* the pages it had already fetched: a failed request is the last one of   *)
(* its call, after a failed search no worklogs are asked for, after a      *)
(* failed search for recent issues the cache gets no issue, and an issue   *)
(* whose worklog fetch failed counts no worklog.                           *)
C14_NoRetryNothingKept ==
    /\ \A i \in 1..Len(requests_log) :
          FailedRequest(i) => \A j \in (i + 1)..Len(requests_log) : ~SameCall(i, j)
    /\ \A i \in 1..Len(requests_log) :
          (FailedRequest(i) /\ requests_log[i].kind = "search") =>
              /\ i = Len(requests_log)
              /\ issue_queue = <<>>
              /\ worklogs = <<>>
    /\ \A i \in 1..Len(requests_log) :
          (FailedRequest(i) /\ requests_log[i].kind = "recent") =>
              /\ i = Len(requests_log)
              /\ recent_issues = Some(<<>>)
    /\ \A i \in 1..Len(requests_log) :
          (FailedRequest(i) /\ requests_log[i].kind = "worklog") =>
              [issue |-> requests_log[i].param[1][1], count |-> 0] \in Range(worklogs)

\* the first page of the search held A-1, the second page failed: nothing
\* is returned, no worklog is asked for and the run ends
C14_Witness ==
    /\ requests_log = <<Sent("search", None, "ok"), Sent("search", Some(2), "http_error")>>
    /\ all_issues = <<Issue.A1>>
    /\ issue_queue = <<>>
    /\ worklogs = <<>>
    /\ fetch_pc = "done"

=============================================================================
